---- MODULE Spec2Model ----
(***************************************************************************)
(* Feature history and version compatibility of databend-meta              *)
(* (crates/version): Version, FeatureSpan, Feature and Spec.               *)
(*                                                                         *)
(* A u64 is modelled exactly, as its eight bytes, most significant first,  *)
(* so that wrapping and checked arithmetic have the width of the source.   *)
(***************************************************************************)
EXTENDS Integers, Sequences, FiniteSets, TLC

VARIABLES
    debug_assertions, \* build profile: debug_assert! and overflow checks are compiled in
    catalog,          \* the slice returned by Feature::all() in the build under study
    pc,               \* "replay" in Spec::new, "built" once it returned, "panicked"
    srv,              \* Spec::new local `srv`, then Spec.server_features; dropped by a panic
    cli,              \* Spec::new local `cli`, then Spec.client_features; dropped by a panic
    version,          \* Spec.version once built
    min_server,       \* last value returned by min_compatible_server_version()
    min_client,       \* last value returned by min_compatible_client_version()
    idx,              \* number of add/remove calls of the history executed so far
    ev,               \* the add/remove call executed by the last step, if it was one
    added,            \* (role, feature) pairs for which an add call has returned
    removed,          \* (role, feature) pairs for which a remove call has returned
    ver_in,           \* receiver of Version::to_digit
    digit,            \* value returned by to_digit
    ver_out,          \* value returned by Version::from_digit
    span,             \* receiver of FeatureSpan::is_active_at
    at,               \* argument of is_active_at
    active,           \* value returned by is_active_at
    once,             \* state of the Once inside the LazyLock SPEC
    thread,           \* position of each thread that calls spec() or version()
    seen,             \* what each thread found behind the reference it was given
    loads             \* number of times Spec::load has been entered

vars == <<debug_assertions, catalog, pc, srv, cli, version, min_server, min_client,
          idx, ev, added, removed, ver_in, digit, ver_out, span, at, active,
          once, thread, seen, loads>>

\* Option: None and Some(x)
None == {}
Some(x) == {x}
\* the value inside Some
Unwrap(o) == CHOOSE x \in o : TRUE

-----------------------------------------------------------------------------
(* u64 *)

Bytes == 1..8

\* the u64 whose value is the small natural n (n < 2^31)
U64(n) == [i \in Bytes |-> IF i <= 4 THEN 0 ELSE (n \div (256 ^ (8 - i))) % 256]

U64Max == [i \in Bytes |-> 255]

\* byte of weight 256^k, k in 0..7; 0 above the width
Limb(x, k) == IF k \in 0..7 THEN x[8 - k] ELSE 0

\* -1, 0, 1 as a is below, equal to, above b
U64Cmp(a, b) ==
    IF a = b THEN 0
    ELSE LET i == CHOOSE i \in Bytes : a[i] # b[i] /\ \A j \in 1..(i - 1) : a[j] = b[j]
         IN  IF a[i] < b[i] THEN -1 ELSE 1

RECURSIVE AddCarry(_, _, _)
\* carry into the byte of weight 256^k of a + b
AddCarry(a, b, k) ==
    IF k = 0 THEN 0
    ELSE (Limb(a, k - 1) + Limb(b, k - 1) + AddCarry(a, b, k - 1)) \div 256

\* a + b: wrapped to 64 bits, and whether the true sum needs more
U64Add(a, b) ==
    [value    |-> [i \in Bytes |-> (Limb(a, 8 - i) + Limb(b, 8 - i) + AddCarry(a, b, 8 - i)) % 256],
     overflow |-> AddCarry(a, b, 8) # 0]

RECURSIVE Column(_, _, _, _)
\* sum of the byte products of weight 256^k, from byte i of a upward
Column(a, b, k, i) ==
    IF i > 7 \/ i > k THEN 0
    ELSE Limb(a, i) * Limb(b, k - i) + Column(a, b, k, i + 1)

RECURSIVE MulCarry(_, _, _)
\* carry into the byte of weight 256^k of a * b
MulCarry(a, b, k) ==
    IF k = 0 THEN 0
    ELSE (Column(a, b, k - 1, 0) + MulCarry(a, b, k - 1)) \div 256

\* a * b: wrapped to 64 bits, and whether the true product needs more
U64Mul(a, b) ==
    [value    |-> [i \in Bytes |-> (Column(a, b, 8 - i, 0) + MulCarry(a, b, 8 - i)) % 256],
     overflow |-> \E k \in 8..15 : (Column(a, b, k, 0) + MulCarry(a, b, k)) % 256 # 0]

RECURSIVE DivRem(_, _, _)
\* remainder of the leading i bytes of x divided by the natural d (d < 2^23)
DivRem(x, d, i) ==
    IF i = 0 THEN 0 ELSE (DivRem(x, d, i - 1) * 256 + x[i]) % d

\* x / d
U64Div(x, d) == [i \in Bytes |-> (DivRem(x, d, i - 1) * 256 + x[i]) \div d]

\* x % d
U64Rem(x, d) == U64(DivRem(x, d, 8))

-----------------------------------------------------------------------------
(* version.rs *)

\* Version::new
VersionNew(major, minor, patch) == [major |-> major, minor |-> minor, patch |-> patch]

\* Version::min
VersionMin == VersionNew(U64(0), U64(0), U64(0))

\* Version::max
VersionMax == VersionNew(U64Max, U64Max, U64Max)

\* #[derive(PartialOrd, Ord)]: fields compared in declaration order
cmp(a, b) ==
    IF U64Cmp(a.major, b.major) # 0 THEN U64Cmp(a.major, b.major)
    ELSE IF U64Cmp(a.minor, b.minor) # 0 THEN U64Cmp(a.minor, b.minor)
    ELSE U64Cmp(a.patch, b.patch)

\* a <= b
le(a, b) == cmp(a, b) <= 0

\* a < b
lt(a, b) == cmp(a, b) < 0

\* Ord::min written where Ord::max was meant
max_smaller(a, b) == IF cmp(a, b) < 0 THEN a ELSE b

\* Ord::max: the second argument unless the first is greater
max(a, b) == IF cmp(a, b) > 0 THEN a ELSE b

\* the outcome of a call: a value, or a panic
Ok(x) == [ok |-> TRUE, value |-> x]
Panicked(x) == [ok |-> FALSE, value |-> x]

\* one arithmetic step of to_digit: it panics on overflow when overflow checks
\* are compiled in (Cargo ties them to debug assertions), and wraps otherwise
Checked(r) == IF r.overflow /\ debug_assertions THEN Panicked(r.value) ELSE Ok(r.value)

\* to_digit adding only the last three digits of the patch component
to_digit_patch_reduced(self) ==
    LET m1 == Checked(U64Mul(self.major, U64(1000000)))
        m2 == Checked(U64Mul(self.minor, U64(1000)))
        s1 == Checked(U64Add(m1.value, m2.value))
        s2 == Checked(U64Add(s1.value, U64Rem(self.patch, 1000)))
    IN  IF m1.ok /\ m2.ok /\ s1.ok /\ s2.ok THEN s2 ELSE Panicked(U64(0))

\* Version::to_digit
to_digit(self) ==
    LET m1 == Checked(U64Mul(self.major, U64(1000000)))
        m2 == Checked(U64Mul(self.minor, U64(1000)))
        s1 == Checked(U64Add(m1.value, m2.value))
        s2 == Checked(U64Add(s1.value, self.patch))
    IN  IF m1.ok /\ m2.ok /\ s1.ok /\ s2.ok THEN s2 ELSE Panicked(U64(0))

\* from_digit without the reduction of the minor component
from_digit_unreduced(u) ==
    [major |-> U64Div(u, 1000000),
     minor |-> U64Div(u, 1000),
     patch |-> U64Rem(u, 1000)]

\* Version::from_digit
from_digit(u) ==
    [major |-> U64Div(u, 1000000),
     minor |-> U64Rem(U64Div(u, 1000), 1000),
     patch |-> U64Rem(u, 1000)]

-----------------------------------------------------------------------------
(* feat.rs *)

\* Feature::all
FeatureAll ==
    << "KvApi", "KvApiGetKv", "KvApiMGetKv", "KvApiListKv", "KvReadV1",
       "Transaction", "TransactionReplyError", "TransactionPutWithTtl",
       "TransactionConditionKeysPrefix", "TransactionOperations",
       "OperationAsIs", "Export", "ExportV1", "Watch", "WatchInitialFlush",
       "WatchResponseIsInit", "MemberList", "GetClusterStatus", "GetClientInfo",
       "PutResponseCurrent", "FetchAddU64", "ExpireInMillis", "PutSequential",
       "ProposedAtMs", "FetchIncreaseU64", "KvList", "KvGetMany" >>

-----------------------------------------------------------------------------
(* feature_span.rs *)

\* FeatureSpan::new
FeatureSpanNew(feature, since) == [feature |-> feature, since |-> since, until |-> VersionMax]

\* FeatureSpan::until
FeatureSpanUntil(self, until) == [self EXCEPT !.until = until]

\* is_active_at that compares with `since` only
is_active_at_open_ended(self, v) == le(self.since, v)

\* is_active_at with `until` inclusive
is_active_at_closed(self, v) == le(self.since, v) /\ le(v, self.until)

\* FeatureSpan::is_active_at
is_active_at(self, v) == le(self.since, v) /\ lt(v, self.until)

-----------------------------------------------------------------------------
(* spec.rs *)

\* const fn ver
ver(major, minor, patch) == VersionNew(U64(major), U64(minor), U64(patch))

\* features.entry(feature).or_insert_with(|| FeatureSpan::new(feature, Version::min()))
or_insert(features, feature) ==
    IF feature \in DOMAIN features THEN features
    ELSE features @@ (feature :> FeatureSpanNew(feature, VersionMin))

\* fn add: the map it leaves behind, and whether it returned rather than panicked
add(features, feature, v) ==
    LET entry == or_insert(features, feature)
        found == entry[feature]
    IN  IF debug_assertions /\ ~(found.since = VersionMin /\ found.until = VersionMax)
        THEN Panicked(entry)
        ELSE Ok([entry EXCEPT ![feature].since = v])

\* remove that takes the record out of the map
remove_deleting(features, feature, v) ==
    LET entry == or_insert(features, feature)
        found == entry[feature]
    IN  IF debug_assertions /\ ~(found.since # VersionMin /\ found.until = VersionMax)
        THEN Panicked(entry)
        ELSE Ok([g \in DOMAIN features \ {feature} |-> features[g]])

\* fn remove: the map it leaves behind, and whether it returned rather than panicked
remove(features, feature, v) ==
    LET entry == or_insert(features, feature)
        found == entry[feature]
    IN  IF debug_assertions /\ ~(found.since # VersionMin /\ found.until = VersionMax)
        THEN Panicked(entry)
        ELSE Ok([entry EXCEPT ![feature].until = v])

\* assert_all_features that stops one feature short
assert_all_features_short(features) ==
    \A i \in 1..(Len(catalog) - 1) : catalog[i] \in DOMAIN features

\* Spec::assert_all_features: TRUE when no assert! fires
assert_all_features(features) ==
    \A i \in 1..Len(catalog) : catalog[i] \in DOMAIN features

RECURSIVE min_server_loop_client(_)
\* the loop of min_compatible_server_version taking `since` from the client lifetime
min_server_loop_client(n) ==
    IF n = 0 THEN Ok(VersionMin)
    ELSE LET before == min_server_loop_client(n - 1)
             feature == catalog[n]
         IN  IF ~before.ok \/ feature \notin DOMAIN cli \/ feature \notin DOMAIN srv
             THEN Panicked(before.value)
             ELSE LET client_lt == cli[feature]
                      server_lt == srv[feature]
                  IN  Ok(IF is_active_at(client_lt, Unwrap(version))
                         THEN max(before.value, client_lt.since) ELSE before.value)

RECURSIVE min_server_loop(_)
\* the loop of min_compatible_server_version over the first n features; a failed
\* unwrap() ends it with a panic
min_server_loop(n) ==
    IF n = 0 THEN Ok(VersionMin)
    ELSE LET before == min_server_loop(n - 1)
             feature == catalog[n]
         IN  IF ~before.ok \/ feature \notin DOMAIN cli \/ feature \notin DOMAIN srv
             THEN Panicked(before.value)
             ELSE LET client_lt == cli[feature]
                      server_lt == srv[feature]
                  IN  Ok(IF is_active_at(client_lt, Unwrap(version))
                         THEN max(before.value, server_lt.since) ELSE before.value)

\* Spec::min_compatible_server_version
min_compatible_server_version == min_server_loop(Len(catalog))

RECURSIVE min_client_loop_since(_)
\* the loop of min_compatible_client_version taking the client `since`, not `until`
min_client_loop_since(n) ==
    IF n = 0 THEN Ok(VersionMin)
    ELSE LET before == min_client_loop_since(n - 1)
             feature == catalog[n]
         IN  IF ~before.ok \/ feature \notin DOMAIN cli \/ feature \notin DOMAIN srv
             THEN Panicked(before.value)
             ELSE LET client_lt == cli[feature]
                      server_lt == srv[feature]
                  IN  Ok(IF ~is_active_at(server_lt, Unwrap(version))
                         THEN max(before.value, client_lt.since) ELSE before.value)

RECURSIVE min_client_loop(_)
\* the loop of min_compatible_client_version over the first n features; a failed
\* unwrap() ends it with a panic
min_client_loop(n) ==
    IF n = 0 THEN Ok(VersionMin)
    ELSE LET before == min_client_loop(n - 1)
             feature == catalog[n]
         IN  IF ~before.ok \/ feature \notin DOMAIN cli \/ feature \notin DOMAIN srv
             THEN Panicked(before.value)
             ELSE LET client_lt == cli[feature]
                      server_lt == srv[feature]
                  IN  Ok(IF ~is_active_at(server_lt, Unwrap(version))
                         THEN max(before.value, client_lt.until) ELSE before.value)

\* min_compatible_client_version running the loop of the server query
min_compatible_client_version_server_loop == min_server_loop(Len(catalog))

\* Spec::min_compatible_client_version
min_compatible_client_version == min_client_loop(Len(catalog))

-----------------------------------------------------------------------------
(* Spec::new over an arbitrary history of add and remove calls *)

\* the catalog of the arbitrary histories: the first two members of Feature::all()
Catalog == <<"KvApi", "KvApiGetKv">>

\* number of add/remove calls in an arbitrary history
MaxEvents == 5

\* versions carried by the add calls of an arbitrary history
AddVersions == {VersionMin, ver(1, 2, 163), VersionMax}

\* versions carried by the remove calls of an arbitrary history
RemoveVersions == {ver(1, 3, 0), VersionMax}

\* build versions, and peer versions the results are compared with
BuildVersions == AddVersions \cup RemoveVersions

Roles == {"srv", "cli"}

\* number of threads that call spec() or version()
NumThreads == 3

Threads == 1..NumThreads

\* static SPEC before its first use: the LazyLock holds the closure, no value
InitStatic ==
    /\ once = "incomplete"
    /\ thread = [t \in Threads |-> "idle"]
    /\ seen = [t \in Threads |-> None]
    /\ loads = 0

EmptyMap == [f \in {} |-> VersionMin]

\* the fields left alone by the calls on plain values
NewUnchanged ==
    UNCHANGED <<debug_assertions, catalog, pc, srv, cli, version, min_server,
                min_client, idx, ev, added, removed, once, thread, seen, loads>>

\* the fields left alone by construction and the queries
PureUnchanged ==
    UNCHANGED <<ver_in, digit, ver_out, span, at, active, once, thread, seen, loads>>

InitNew ==
    /\ pc = "replay"
    /\ srv = EmptyMap
    /\ cli = EmptyMap
    /\ version = None
    /\ min_server = None
    /\ min_client = None
    /\ idx = 0
    /\ ev = None
    /\ added = {}
    /\ removed = {}
    /\ ver_in = None /\ digit = None /\ ver_out = None
    /\ span = None /\ at = None /\ active = None
    /\ InitStatic

Init ==
    /\ debug_assertions \in BOOLEAN
    /\ catalog = Catalog
    /\ InitNew

\* one add(&mut srv|cli, feature, v) or remove(&mut srv|cli, feature, v) statement
Call(e) ==
    LET features == IF e.role = "srv" THEN srv ELSE cli
        r == IF e.kind = "add" THEN add(features, e.feature, e.version)
             ELSE remove(features, e.feature, e.version)
    IN  /\ IF r.ok
           THEN /\ pc' = "replay"
                /\ srv' = IF e.role = "srv" THEN r.value ELSE srv
                /\ cli' = IF e.role = "cli" THEN r.value ELSE cli
           ELSE /\ pc' = "panicked"
                /\ srv' = EmptyMap
                /\ cli' = EmptyMap
        /\ added' = IF r.ok /\ e.kind = "add" THEN added \cup {<<e.role, e.feature>>} ELSE added
        /\ removed' = IF r.ok /\ e.kind = "remove" THEN removed \cup {<<e.role, e.feature>>} ELSE removed
        /\ ev' = Some(e)
        /\ idx' = idx + 1
        /\ UNCHANGED <<debug_assertions, catalog, version, min_server, min_client>>
        /\ PureUnchanged

Event(role, kind, feature, v) == [role |-> role, kind |-> kind, feature |-> feature, version |-> v]

\* an add statement of the history
Add ==
    /\ pc = "replay"
    /\ idx < MaxEvents
    /\ \E role \in Roles, i \in 1..Len(catalog), v \in AddVersions :
          Call(Event(role, "add", catalog[i], v))

\* a remove statement of the history
Remove ==
    /\ pc = "replay"
    /\ idx < MaxEvents
    /\ \E role \in Roles, i \in 1..Len(catalog), v \in RemoveVersions :
          Call(Event(role, "remove", catalog[i], v))

\* the end of Spec::new without the two assert_all_features calls
FinishUnchecked(v) ==
    /\ pc = "replay"
    /\ pc' = "built"
    /\ version' = Some(v)
    /\ ev' = None
    /\ UNCHANGED <<srv, cli>>
    /\ UNCHANGED <<debug_assertions, catalog, min_server, min_client, idx, added, removed>>
    /\ PureUnchanged

\* the end of Spec::new: both assert_all_features calls, then the Spec value
Finish(v) ==
    /\ pc = "replay"
    /\ IF assert_all_features(srv) /\ assert_all_features(cli)
       THEN /\ pc' = "built"
            /\ version' = Some(v)
            /\ UNCHANGED <<srv, cli>>
       ELSE /\ pc' = "panicked"
            /\ version' = None
            /\ srv' = EmptyMap
            /\ cli' = EmptyMap
    /\ ev' = None
    /\ UNCHANGED <<debug_assertions, catalog, min_server, min_client, idx, added, removed>>
    /\ PureUnchanged

\* Spec::new returns or panics, for some build version
New == \E v \in BuildVersions : Finish(v)

\* a call of spec.min_compatible_server_version()
MinCompatibleServerVersion ==
    /\ pc = "built"
    /\ pc' = IF min_compatible_server_version.ok THEN pc ELSE "panicked"
    /\ min_server' = IF min_compatible_server_version.ok
                     THEN Some(min_compatible_server_version.value)
                     ELSE min_server
    /\ UNCHANGED <<debug_assertions, catalog, srv, cli, version, min_client,
                   idx, ev, added, removed>>
    /\ PureUnchanged

\* a call of spec.min_compatible_client_version()
MinCompatibleClientVersion ==
    /\ pc = "built"
    /\ pc' = IF min_compatible_client_version.ok THEN pc ELSE "panicked"
    /\ min_client' = IF min_compatible_client_version.ok
                     THEN Some(min_compatible_client_version.value)
                     ELSE min_client
    /\ UNCHANGED <<debug_assertions, catalog, srv, cli, version, min_server,
                   idx, ev, added, removed>>
    /\ PureUnchanged

Next == Add \/ Remove \/ New \/ MinCompatibleServerVersion \/ MinCompatibleClientVersion

Spec == Init /\ [][Next]_vars

-----------------------------------------------------------------------------
(* Spec::load: Spec::new over the history written in its body *)

\* the add and remove statements of Spec::new, in program order
History ==
    <<
       Event("srv", "add", "OperationAsIs", ver(1, 2, 163)),
       Event("srv", "add", "KvApi", ver(1, 2, 163)),
       Event("srv", "add", "KvApiGetKv", ver(1, 2, 163)),
       Event("srv", "add", "KvApiMGetKv", ver(1, 2, 163)),
       Event("srv", "add", "KvApiListKv", ver(1, 2, 163)),
       Event("srv", "add", "KvReadV1", ver(1, 2, 163)),
       Event("cli", "add", "OperationAsIs", ver(1, 2, 163)),
       Event("cli", "add", "KvApi", ver(1, 2, 163)),
       Event("cli", "add", "KvApiGetKv", ver(1, 2, 163)),
       Event("cli", "add", "KvApiMGetKv", ver(1, 2, 163)),
       Event("cli", "add", "KvApiListKv", ver(1, 2, 163)),
       Event("cli", "add", "KvReadV1", ver(1, 2, 176)),
       Event("srv", "add", "Transaction", ver(1, 2, 258)),
       Event("srv", "add", "TransactionReplyError", ver(1, 2, 258)),
       Event("srv", "add", "TransactionPutWithTtl", ver(1, 2, 258)),
       Event("cli", "add", "TransactionReplyError", ver(1, 2, 258)),
       Event("srv", "add", "Export", ver(1, 2, 259)),
       Event("srv", "add", "Watch", ver(1, 2, 259)),
       Event("srv", "add", "MemberList", ver(1, 2, 259)),
       Event("srv", "add", "GetClusterStatus", ver(1, 2, 259)),
       Event("srv", "add", "GetClientInfo", ver(1, 2, 259)),
       Event("cli", "add", "Transaction", ver(1, 2, 259)),
       Event("cli", "add", "Export", ver(1, 2, 259)),
       Event("cli", "add", "Watch", ver(1, 2, 259)),
       Event("cli", "add", "MemberList", ver(1, 2, 259)),
       Event("cli", "add", "GetClusterStatus", ver(1, 2, 259)),
       Event("cli", "add", "GetClientInfo", ver(1, 2, 259)),
       Event("cli", "remove", "KvApiGetKv", ver(1, 2, 287)),
       Event("cli", "remove", "KvApiMGetKv", ver(1, 2, 287)),
       Event("cli", "remove", "KvApiListKv", ver(1, 2, 287)),
       Event("srv", "add", "ExportV1", ver(1, 2, 315)),
       Event("cli", "add", "TransactionPutWithTtl", ver(1, 2, 361)),
       Event("srv", "remove", "KvApiGetKv", ver(1, 2, 663)),
       Event("srv", "remove", "KvApiMGetKv", ver(1, 2, 663)),
       Event("srv", "remove", "KvApiListKv", ver(1, 2, 663)),
       Event("cli", "remove", "OperationAsIs", ver(1, 2, 663)),
       Event("srv", "add", "TransactionConditionKeysPrefix", ver(1, 2, 674)),
       Event("srv", "add", "TransactionOperations", ver(1, 2, 676)),
       Event("cli", "remove", "TransactionReplyError", ver(1, 2, 676)),
       Event("srv", "add", "WatchInitialFlush", ver(1, 2, 677)),
       Event("cli", "add", "WatchInitialFlush", ver(1, 2, 726)),
       Event("cli", "add", "WatchResponseIsInit", ver(1, 2, 726)),
       Event("cli", "add", "TransactionConditionKeysPrefix", ver(1, 2, 726)),
       Event("cli", "add", "TransactionOperations", ver(1, 2, 726)),
       Event("srv", "add", "WatchResponseIsInit", ver(1, 2, 736)),
       Event("srv", "remove", "TransactionReplyError", ver(1, 2, 755)),
       Event("srv", "add", "PutResponseCurrent", ver(1, 2, 756)),
       Event("cli", "add", "PutResponseCurrent", ver(1, 2, 756)),
       Event("srv", "add", "FetchAddU64", ver(1, 2, 764)),
       Event("srv", "add", "ExpireInMillis", ver(1, 2, 770)),
       Event("srv", "add", "PutSequential", ver(1, 2, 770)),
       Event("cli", "add", "FetchAddU64", ver(1, 2, 821)),
       Event("srv", "add", "ProposedAtMs", ver(1, 2, 823)),
       Event("cli", "remove", "KvApi", ver(1, 2, 823)),
       Event("srv", "add", "FetchIncreaseU64", ver(1, 2, 828)),
       Event("srv", "add", "KvList", ver(1, 2, 869)),
       Event("srv", "add", "KvGetMany", ver(1, 2, 869)),
       Event("cli", "add", "ExpireInMillis", ver(260205, 0, 0)),
       Event("cli", "add", "PutSequential", ver(260205, 0, 0)),
       Event("cli", "add", "ExportV1", VersionMax),
       Event("cli", "add", "ProposedAtMs", VersionMax),
       Event("cli", "add", "FetchIncreaseU64", VersionMax),
       Event("cli", "add", "KvList", VersionMax),
       Event("cli", "add", "KvGetMany", VersionMax)
    >>

\* the statements with the server's ExpireInMillis entered at a wrong patch number
StatementTypo(i) ==
    IF History[i] = Event("srv", "add", "ExpireInMillis", ver(1, 2, 770))
    THEN Event("srv", "add", "ExpireInMillis", ver(1, 2, 777))
    ELSE History[i]

\* the statements with the client's removal of KvApi placed before its add
StatementMisplaced(i) ==
    IF History[i] = Event("cli", "add", "KvApi", ver(1, 2, 163))
    THEN Event("cli", "remove", "KvApi", ver(1, 2, 823))
    ELSE IF History[i] = Event("cli", "remove", "KvApi", ver(1, 2, 823))
    THEN Event("cli", "add", "KvApi", ver(1, 2, 163))
    ELSE History[i]

\* the statements with the server's removal of TransactionReplyError naming
\* Transaction
StatementWrongFeature(i) ==
    IF History[i] = Event("srv", "remove", "TransactionReplyError", ver(1, 2, 755))
    THEN Event("srv", "remove", "Transaction", ver(1, 2, 755))
    ELSE History[i]

\* the i-th add or remove statement of Spec::new
Statement(i) == History[i]

\* parse_pkg_version: CARGO_PKG_VERSION is "260205.0.0"
parse_pkg_version == ver(260205, 0, 0)

\* MIN_CLIENT_VERSION
MIN_CLIENT_VERSION == ver(1, 2, 676)

\* MIN_SERVER_VERSION
MIN_SERVER_VERSION == ver(1, 2, 770)

InitLoad ==
    /\ debug_assertions \in BOOLEAN
    /\ catalog = FeatureAll
    /\ InitNew

\* the next add or remove statement of Spec::new
Replay ==
    /\ pc = "replay"
    /\ idx < Len(History)
    /\ Call(Statement(idx + 1))

\* Spec::load returns once every statement has run and both checks pass
Load ==
    /\ idx = Len(History)
    /\ Finish(parse_pkg_version)

NextLoad == Replay \/ Load \/ MinCompatibleServerVersion \/ MinCompatibleClientVersion

SpecLoad == InitLoad /\ [][NextLoad]_vars

-----------------------------------------------------------------------------
(* Spec::new(version) over the history written in its body, for any version,  *)
(* and is_active_at on the lifetimes read through client_features()           *)

\* build versions given to Spec::new
ShippedVersions ==
    {VersionMin, ver(1, 2, 315), ver(1, 2, 869), parse_pkg_version,
     ver(999999, 999, 999), VersionMax}

\* versions is_active_at is asked about
ProbeVersions == {VersionMin, parse_pkg_version, VersionMax}

\* Spec::new(version) returns once every statement has run and both checks pass
NewAt ==
    /\ idx = Len(History)
    /\ \E v \in ShippedVersions : Finish(v)

\* spec.client_features()[feature].is_active_at(v)
ClientIsActiveAt ==
    /\ pc = "built"
    /\ \E i \in 1..Len(catalog), v \in ProbeVersions :
          /\ catalog[i] \in DOMAIN cli
          /\ span' = Some(cli[catalog[i]])
          /\ at' = Some(v)
          /\ active' = Some(is_active_at(cli[catalog[i]], v))
    /\ UNCHANGED <<ver_in, digit, ver_out>>
    /\ NewUnchanged

NextNew ==
    \/ Replay
    \/ NewAt
    \/ MinCompatibleServerVersion
    \/ MinCompatibleClientVersion
    \/ ClientIsActiveAt

SpecNew == InitLoad /\ [][NextNew]_vars

-----------------------------------------------------------------------------
(* static SPEC: LazyLock<Spec> = LazyLock::new(Spec::load), reached through    *)
(* spec() and version() from several threads                                  *)

\* the fields of the program left alone by a step on the Once
StaticUnchanged ==
    UNCHANGED <<debug_assertions, catalog, pc, srv, cli, version, min_server, min_client,
                idx, ev, added, removed, ver_in, digit, ver_out, span, at, active>>

\* what lies behind &SPEC when a thread reads through it
Deref == [version |-> version, server_features |-> srv, client_features |-> cli]

\* the first access that hands out the reference whenever the Once is not
\* incomplete, also while another thread is still inside Spec::load
ForceNoWait(t) ==
    /\ thread[t] = "idle"
    /\ IF once = "incomplete"
       THEN /\ once' = "running"
            /\ thread' = [thread EXCEPT ![t] = "load"]
            /\ loads' = loads + 1
            /\ seen' = seen
       ELSE /\ thread' = [thread EXCEPT ![t] = "returned"]
            /\ seen' = [seen EXCEPT ![t] = Some(Deref)]
            /\ UNCHANGED <<once, loads>>
    /\ StaticUnchanged

\* thread t calls spec() or version(), which both dereference SPEC and so force the
\* LazyLock, whose Once lets the first thread in, parks a thread that arrives
\* during the call of Spec::load, and passes a thread that arrives after it
Force(t) ==
    /\ thread[t] = "idle"
    /\ CASE once = "incomplete" ->
              /\ once' = "running"
              /\ thread' = [thread EXCEPT ![t] = "load"]
              /\ loads' = loads + 1
              /\ seen' = seen
         [] once = "running" ->
              /\ thread' = [thread EXCEPT ![t] = "wait"]
              /\ UNCHANGED <<once, seen, loads>>
         [] once = "complete" ->
              /\ thread' = [thread EXCEPT ![t] = "returned"]
              /\ seen' = [seen EXCEPT ![t] = Some(Deref)]
              /\ UNCHANGED <<once, loads>>
         [] once = "poisoned" ->
              /\ thread' = [thread EXCEPT ![t] = "panicked"]
              /\ UNCHANGED <<once, seen, loads>>
    /\ StaticUnchanged

\* a call of spec() or version() by some thread
Access == \E t \in Threads : Force(t)

\* the thread inside Spec::load executes its next statement
LoadReplay ==
    /\ \E t \in Threads : thread[t] = "load"
    /\ Replay

\* the thread inside Spec::load reaches the end of Spec::new
LoadFinish ==
    /\ \E t \in Threads : thread[t] = "load"
    /\ Load

\* Spec::load has returned or panicked: the Once becomes complete or poisoned
\* and the loading thread gets its reference, or unwinds
Publish(t) ==
    /\ thread[t] = "load"
    /\ pc # "replay"
    /\ IF pc = "built"
       THEN /\ once' = "complete"
            /\ thread' = [thread EXCEPT ![t] = "returned"]
            /\ seen' = [seen EXCEPT ![t] = Some(Deref)]
       ELSE /\ once' = "poisoned"
            /\ thread' = [thread EXCEPT ![t] = "panicked"]
            /\ seen' = seen
    /\ loads' = loads
    /\ StaticUnchanged

\* a parked thread is woken once the Once is no longer running
Wake(t) ==
    /\ thread[t] = "wait"
    /\ once \in {"complete", "poisoned"}
    /\ IF once = "complete"
       THEN /\ thread' = [thread EXCEPT ![t] = "returned"]
            /\ seen' = [seen EXCEPT ![t] = Some(Deref)]
       ELSE /\ thread' = [thread EXCEPT ![t] = "panicked"]
            /\ seen' = seen
    /\ UNCHANGED <<once, loads>>
    /\ StaticUnchanged

NextStatic ==
    \/ Access
    \/ LoadReplay
    \/ LoadFinish
    \/ \E t \in Threads : Publish(t)
    \/ \E t \in Threads : Wake(t)

SpecStatic == InitLoad /\ [][NextStatic]_vars

-----------------------------------------------------------------------------
(* Version::to_digit and Version::from_digit on chosen triples *)

\* u64::MAX / 1_000_000 = 18_446_744_073_709, the largest major whose product fits
MajorFit == <<0, 0, 16, 198, 247, 160, 181, 237>>

\* the u64 that follows x
Succ(x) == U64Add(x, U64(1)).value

Majors == {U64(0), U64(1), U64(999), U64(1000), U64(260205), U64(261231),
           MajorFit, Succ(MajorFit), U64Max}
Minors == {U64(0), U64(1), U64(551), U64(552), U64(999), U64(1000), U64(1999),
           U64Max}
Patches == {U64(0), U64(1), U64(615), U64(616), U64(999), U64(1000), U64(1234567),
            U64Max}

InitDigit ==
    /\ debug_assertions \in BOOLEAN
    /\ catalog = FeatureAll
    /\ pc = "replay" /\ srv = EmptyMap /\ cli = EmptyMap /\ version = None
    /\ min_server = None /\ min_client = None
    /\ idx = 0 /\ ev = None /\ added = {} /\ removed = {}
    /\ \E major \in Majors, minor \in Minors, patch \in Patches :
          ver_in = Some(VersionNew(major, minor, patch))
    /\ digit = None /\ ver_out = None
    /\ span = None /\ at = None /\ active = None
    /\ InitStatic

\* a call of ver_in.to_digit()
ToDigit ==
    /\ digit = None
    /\ digit' = Some(to_digit(Unwrap(ver_in)))
    /\ UNCHANGED <<ver_in, ver_out, span, at, active>>
    /\ NewUnchanged

\* a call of Version::from_digit on the value to_digit returned
FromDigit ==
    /\ digit # None
    /\ Unwrap(digit).ok
    /\ ver_out = None
    /\ ver_out' = Some(from_digit(Unwrap(digit).value))
    /\ UNCHANGED <<ver_in, digit, span, at, active>>
    /\ NewUnchanged

NextDigit == ToDigit \/ FromDigit

SpecDigit == InitDigit /\ [][NextDigit]_vars

-----------------------------------------------------------------------------
(* FeatureSpan::new, until and is_active_at on chosen versions *)

SpanVersions == {VersionMin, ver(0, 999, 999), ver(1, 2, 162), ver(1, 2, 163),
                 ver(1, 2, 287), ver(1, 3, 0), ver(2, 0, 0), VersionMax}

InitSpan ==
    /\ debug_assertions \in BOOLEAN
    /\ catalog = FeatureAll
    /\ InitNew

\* FeatureSpan::new(Feature::KvApi, since)
SpanNew ==
    /\ span = None
    /\ \E since \in SpanVersions : span' = Some(FeatureSpanNew("KvApi", since))
    /\ UNCHANGED <<ver_in, digit, ver_out, at, active>>
    /\ NewUnchanged

\* span.until(until)
SpanUntil ==
    /\ span # None
    /\ at = None
    /\ \E until \in SpanVersions : span' = Some(FeatureSpanUntil(Unwrap(span), until))
    /\ UNCHANGED <<ver_in, digit, ver_out, at, active>>
    /\ NewUnchanged

\* span.is_active_at(v)
IsActiveAt ==
    /\ span # None
    /\ \E v \in SpanVersions :
          /\ at' = Some(v)
          /\ active' = Some(is_active_at(Unwrap(span), v))
    /\ UNCHANGED <<ver_in, digit, ver_out, span>>
    /\ NewUnchanged

NextSpan == SpanNew \/ SpanUntil \/ IsActiveAt

SpecSpan == InitSpan /\ [][NextSpan]_vars

-----------------------------------------------------------------------------
(* Properties *)

\* the 24 bytes of a version, major first
Flat(v) == v.major \o v.minor \o v.patch

\* a <= b as triples of numbers, read off their bytes
AtMost(a, b) ==
    \/ a = b
    \/ \E i \in 1..24 : /\ Flat(a)[i] < Flat(b)[i]
                        /\ \A j \in 1..(i - 1) : Flat(a)[j] = Flat(b)[j]

\* a < b
Below(a, b) == AtMost(a, b) /\ a # b

\* v lies in the half-open interval [lt.since, lt.until)
Within(lt_, v) == AtMost(lt_.since, v) /\ Below(v, lt_.until)

\* the greatest member of a non-empty set of versions
Greatest(S) == CHOOSE m \in S : \A x \in S : AtMost(x, m)

\* the members of Feature::all()
Features == {catalog[i] : i \in 1..Len(catalog)}

\* the features the client build exercises at the stored version
ClientActive == {f \in Features : Within(cli[f], Unwrap(version))}

\* the features the server build does not provide at the stored version
ServerInactive == {f \in Features : ~Within(srv[f], Unwrap(version))}

\* C1: min_compatible_server_version() returns the greatest server `since`
\* among the features whose client lifetime is active at the stored version,
\* and Version::min() when there is none; the other features do not count.
C1_MinServerIsGreatestSince ==
    (pc = "built" /\ min_server # None) =>
        Unwrap(min_server) =
            IF ClientActive = {} THEN VersionMin
            ELSE Greatest({srv[f].since : f \in ClientActive})

\* C1 witness: in a build with debug assertions, two active client features
\* with different server `since`; the result is the later one.
C1_Witness ==
    /\ debug_assertions
    /\ pc = "built" /\ min_server # None
    /\ \E f \in ClientActive, g \in ClientActive :
          /\ Below(srv[f].since, srv[g].since)
          /\ Unwrap(min_server) = srv[g].since
          /\ srv[g].since # VersionMax

\* C2: min_compatible_client_version() returns the greatest client `until`
\* among the features whose server lifetime is not active at the stored
\* version, Version::min() when every server lifetime is active, and
\* Version::max() when one of those features has client `until` = max.
C2_MinClientIsGreatestUntil ==
    (pc = "built" /\ min_client # None) =>
        /\ Unwrap(min_client) =
              IF ServerInactive = {} THEN VersionMin
              ELSE Greatest({cli[f].until : f \in ServerInactive})
        /\ (\E f \in ServerInactive : cli[f].until = VersionMax)
              => Unwrap(min_client) = VersionMax

\* C2 witness: in a build with debug assertions, a feature the server lacks
\* whose client `until` is a real version, which is the result, while another
\* feature is active on the server.
C2_Witness ==
    /\ debug_assertions
    /\ pc = "built" /\ min_client # None
    /\ ServerInactive # {} /\ ServerInactive # Features
    /\ Unwrap(min_client) \notin {VersionMin, VersionMax}

\* a server build at version s provides every feature the client build exercises
ServesClient(s) == \A f \in ClientActive : Within(srv[f], s)

\* C3 as claimed, on the histories a build with debug assertions accepts: a
\* server version s < max serves every feature the client exercises if and
\* only if s >= min_compatible_server_version().
C3_Original ==
    (debug_assertions /\ pc = "built" /\ min_server # None) =>
        \A s \in BuildVersions \ {VersionMax} :
            ServesClient(s) <=> AtMost(Unwrap(min_server), s)

\* C3: a server version s < max serves every feature the client exercises if
\* and only if s >= min_compatible_server_version() and s is below the server
\* `until` of each of those features.
C3_MinServerIsLowerBound ==
    (pc = "built" /\ min_server # None) =>
        \A s \in BuildVersions \ {VersionMax} :
            ServesClient(s) <=>
                /\ AtMost(Unwrap(min_server), s)
                /\ \A f \in ClientActive : Below(s, srv[f].until)

\* C3 witness: in a build with debug assertions, a server version at or above
\* the result that has already dropped a feature the client exercises.
C3_Witness ==
    /\ debug_assertions
    /\ pc = "built" /\ min_server # None
    /\ \E s \in BuildVersions \ {VersionMax}, f \in ClientActive :
          /\ AtMost(Unwrap(min_server), s)
          /\ AtMost(srv[f].until, s)
          /\ Below(srv[f].since, srv[f].until)

\* C4: Spec::load of build 260205.0.0 returns, and its two queries return the
\* published MIN_SERVER_VERSION (1,2,770) and MIN_CLIENT_VERSION (1,2,676).
C4_PublishedMinimums ==
    /\ pc # "panicked"
    /\ pc = "built" => version = Some(ver(260205, 0, 0))
    /\ min_server # None => min_server = Some(ver(1, 2, 770)) /\ MIN_SERVER_VERSION = ver(1, 2, 770)
    /\ min_client # None => min_client = Some(ver(1, 2, 676)) /\ MIN_CLIENT_VERSION = ver(1, 2, 676)

\* C4 witness: both queries have returned on the loaded registry.
C4_Witness ==
    /\ pc = "built" /\ idx = Len(History)
    /\ min_server = Some(MIN_SERVER_VERSION)
    /\ min_client = Some(MIN_CLIENT_VERSION)

\* every catalog feature has a record in the mapping, under its own key
Complete(features) ==
    /\ Features \subseteq DOMAIN features
    /\ \A f \in DOMAIN features : features[f].feature = f

\* C5: a registry that construction returns has a record for every catalog
\* feature in both mappings, each under its own key; when a catalog feature
\* lacks a record in either mapping after the replay, construction panics and
\* returns no registry.
C5_CompleteOrPanic ==
    /\ [](pc = "built" => Complete(srv) /\ Complete(cli) /\ version # None)
    /\ [][(pc = "replay" /\ pc' # "replay" /\ idx' = idx) =>
            IF Features \subseteq DOMAIN srv /\ Features \subseteq DOMAIN cli
            THEN pc' = "built" /\ srv' = srv /\ cli' = cli
            ELSE pc' = "panicked" /\ version' = None /\ srv' = EmptyMap /\ cli' = EmptyMap]_vars

\* C5 witness: in a build with debug assertions, construction returned a
\* registry after a removal was replayed.
C5_Witness ==
    /\ debug_assertions
    /\ pc = "built"
    /\ Complete(srv) /\ Complete(cli)
    /\ removed # {}

\* the call executed by the step, the pair it names, and that pair's mapping
\* after the call
CallStep == idx' = idx + 1 /\ ev' # None
CalledPair == <<Unwrap(ev').role, Unwrap(ev').feature>>
MapBefore == IF Unwrap(ev').role = "srv" THEN srv ELSE cli
MapAfter == IF Unwrap(ev').role = "srv" THEN srv' ELSE cli'

\* C6 as claimed, on builds with debug assertions: the first add for a (role,
\* feature) creates the record, sets `since` to the version of the call and
\* leaves `until` = max; every later add for that pair panics, whatever the
\* versions of the two calls.
C6_SecondAddPanics ==
    [][(debug_assertions /\ CallStep /\ Unwrap(ev').kind = "add") =>
          IF CalledPair \in added
          THEN pc' = "panicked"
          ELSE /\ pc' = "replay"
               /\ MapAfter[Unwrap(ev').feature].since = Unwrap(ev').version
               /\ MapAfter[Unwrap(ev').feature].until = VersionMax]_vars

\* C7 as claimed, on builds with debug assertions: a remove for a (role,
\* feature) with no earlier add, or with an earlier remove, panics whatever the
\* versions of those calls; any other remove sets `until` to the version of
\* the call and leaves `since` alone.
C7_RemoveNeedsOneAdd ==
    [][(debug_assertions /\ CallStep /\ Unwrap(ev').kind = "remove") =>
          IF CalledPair \notin added \/ CalledPair \in removed
          THEN pc' = "panicked"
          ELSE /\ pc' = "replay"
               /\ MapAfter[Unwrap(ev').feature].until = Unwrap(ev').version
               /\ MapAfter[Unwrap(ev').feature].since =
                     MapBefore[Unwrap(ev').feature].since]_vars

\* the statements before the i-th that name the same role and feature
Earlier(i) ==
    {j \in 1..(i - 1) : /\ Statement(j).role = Statement(i).role
                        /\ Statement(j).feature = Statement(i).feature}

\* the i-th statement keeps the history well formed
WellFormedAt(i) ==
    IF Statement(i).kind = "add"
    THEN Earlier(i) = {}
    ELSE \E j \in Earlier(i) :
            /\ Earlier(i) = {j}
            /\ Statement(j).kind = "add"
            /\ Below(Statement(j).version, Statement(i).version)

\* C8: in the statement list of Spec::new, for every role and catalog feature
\* the first statement is an add, there is exactly one add and at most one
\* remove, the remove follows the add, and its version is strictly greater.
C8_HistoryWellFormed ==
    /\ \A i \in 1..idx : WellFormedAt(i)
    /\ idx = Len(History) =>
          \A role \in Roles, f \in Features :
              \E i \in 1..Len(History) :
                  /\ Statement(i) = Event(role, "add", f, Statement(i).version)
                  /\ \A j \in 1..Len(History) :
                        Statement(j) = Event(role, "add", f, Statement(j).version) => j = i

\* C8 witness: the whole list has been replayed, removals included, and the
\* registry was returned.
C8_Witness ==
    /\ pc = "built" /\ idx = Len(History)
    /\ Cardinality(added) = 2 * Len(FeatureAll)
    /\ <<"srv", "TransactionReplyError">> \in removed
    /\ <<"cli", "KvApi">> \in removed

\* C9 as claimed: is_active_at(v) holds exactly when since <= v < until; at
\* v = since the span is active and at v = until it is not.
C9_Original ==
    active # None =>
        /\ Unwrap(active) <=> Within(Unwrap(span), Unwrap(at))
        /\ Unwrap(at) = Unwrap(span).since => Unwrap(active)
        /\ Unwrap(at) = Unwrap(span).until => ~Unwrap(active)

\* C9: is_active_at(v) holds exactly when since <= v < until; at v = since
\* the span is active provided since < until, and at v = until it is not.
C9_HalfOpen ==
    active # None =>
        /\ Unwrap(active) <=> Within(Unwrap(span), Unwrap(at))
        /\ (Unwrap(at) = Unwrap(span).since /\ Below(Unwrap(span).since, Unwrap(span).until))
              => Unwrap(active)
        /\ Unwrap(at) = Unwrap(span).until => ~Unwrap(active)

\* C9 witness: is_active_at was asked at the `until` of a non-empty span that
\* was removed at a real version, and answered no.
C9_Witness ==
    /\ active = Some(FALSE)
    /\ at = Some(Unwrap(span).until)
    /\ Below(Unwrap(span).since, Unwrap(span).until)
    /\ Unwrap(span).until # VersionMax

\* minor <= 999 and patch <= 999
InDigitRange(v) == U64Cmp(v.minor, U64(999)) <= 0 /\ U64Cmp(v.patch, U64(999)) <= 0

\* major * 1_000_000 + minor * 1_000 + patch <= u64::MAX, for minor, patch <= 999
FitsU64(v) ==
    \/ U64Cmp(v.major, MajorFit) < 0
    \/ /\ v.major = MajorFit
       /\ \/ U64Cmp(v.minor, U64(551)) < 0
          \/ v.minor = U64(551) /\ U64Cmp(v.patch, U64(615)) <= 0

\* C10 as claimed: for every triple with minor <= 999 and patch <= 999,
\* from_digit(to_digit(v)) = v.
C10_Original ==
    (digit # None /\ InDigitRange(Unwrap(ver_in))) =>
        /\ Unwrap(digit).ok
        /\ ver_out # None => ver_out = ver_in

\* C10: for every triple with minor <= 999, patch <= 999 and
\* major * 1_000_000 + minor * 1_000 + patch <= u64::MAX, to_digit does not
\* overflow and from_digit(to_digit(v)) = v.
C10_RoundTrip ==
    (digit # None /\ InDigitRange(Unwrap(ver_in)) /\ FitsU64(Unwrap(ver_in))) =>
        /\ Unwrap(digit).ok
        /\ ver_out # None => ver_out = ver_in

\* C10 witness: the largest triple that fits has made the round trip.
C10_Witness ==
    /\ ver_in = Some(VersionNew(MajorFit, U64(551), U64(615)))
    /\ digit = Some(Ok(U64Max))
    /\ ver_out = ver_in

\* none of the two products and two sums of to_digit exceeds u64::MAX
NoOverflow(v) ==
    LET m1 == U64Mul(v.major, U64(1000000))
        m2 == U64Mul(v.minor, U64(1000))
        s1 == U64Add(m1.value, m2.value)
        s2 == U64Add(s1.value, v.patch)
    IN  ~m1.overflow /\ ~m2.overflow /\ ~s1.overflow /\ ~s2.overflow

\* the triple with the excess of patch carried into minor and that of minor
\* into major
Carried(v) ==
    LET m == U64Add(v.minor, U64Div(v.patch, 1000)).value
    IN  [major |-> U64Add(v.major, U64Div(m, 1000)).value,
         minor |-> U64Rem(m, 1000),
         patch |-> U64Rem(v.patch, 1000)]

C12_QueriesTotalAndPure ==
    /\ [](pc = "built" =>
            /\ \A i \in 1..Len(catalog) : catalog[i] \in DOMAIN srv /\ catalog[i] \in DOMAIN cli
            /\ min_compatible_server_version.ok
            /\ min_compatible_client_version.ok
            /\ min_server # None => min_server = Some(min_compatible_server_version.value)
            /\ min_client # None => min_client = Some(min_compatible_client_version.value))
    /\ [][pc = "built" =>
            /\ pc' = "built"
            /\ version' = version /\ srv' = srv /\ cli' = cli
            /\ min_server' \in {min_server, Some(min_compatible_server_version.value)}
            /\ min_client' \in {min_client, Some(min_compatible_client_version.value)}]_vars

\* C12 witness: in a build with debug assertions, both queries have returned
\* on a registry with a removed feature, with different results.
C12_Witness ==
    /\ debug_assertions
    /\ pc = "built" /\ removed # {}
    /\ min_server # None /\ min_client # None
    /\ min_server # min_client
    /\ Unwrap(min_client) # VersionMin

\* the registry that the replay of all of History at the package version builds
Loaded ==
    /\ pc = "built"
    /\ idx = Len(History)
    /\ Complete(srv) /\ Complete(cli)
    /\ version = Some(parse_pkg_version)

\* C13: under every interleaving of threads calling spec() or version(),
\* Spec::load is entered at most once; a thread is given a reference only
\* after the replay and both completeness checks have finished, and what
\* every such thread finds behind it is the one registry that load returned.
C13_LoadedOnceAndWhole ==
    /\ loads <= 1
    /\ Cardinality({t \in Threads : thread[t] = "load"}) <= 1
    /\ \A t \in Threads :
          /\ thread[t] = "returned" <=> seen[t] # None
          /\ seen[t] # None =>
                /\ Loaded
                /\ once = "complete"
                /\ seen[t] = Some(Deref)

\* C13 witness: one thread ran Spec::load, another arrived during the replay
\* and was parked, a third arrived after it; all three hold the registry.
C13_Witness ==
    /\ Loaded /\ loads = 1
    /\ \A t \in Threads : seen[t] = Some(Deref)
    /\ <<"srv", "KvApiGetKv">> \in removed

\* the client features recorded at Version::max()
Reserved == {"ExportV1", "ProposedAtMs", "FetchIncreaseU64", "KvList", "KvGetMany"}

\* C14: a lifetime whose `since` is Version::max() is active at no version,
\* Version::max() included; in the registry built from the shipped history the
\* client lifetimes of ExportV1, ProposedAtMs, FetchIncreaseU64, KvList and
\* KvGetMany are such lifetimes, and for every build version the result of
\* min_compatible_server_version() is the greatest server `since` over the
\* other features active on the client, Version::min() when there is none.
C14_ReservedNeverActive ==
    /\ (active # None /\ Unwrap(span).since = VersionMax) => active = Some(FALSE)
    /\ pc = "built" =>
          /\ Reserved = {f \in Features : cli[f].since = VersionMax}
          /\ Reserved \cap ClientActive = {}
    /\ (pc = "built" /\ min_server # None) =>
          Unwrap(min_server) =
              IF ClientActive \ Reserved = {} THEN VersionMin
              ELSE Greatest({srv[f].since : f \in ClientActive \ Reserved})

\* C14 witness: built at Version::max(), the registry was asked whether the
\* client's KvList is active at Version::max() and answered no, and
\* min_compatible_server_version() returned Version::min().
C14_Witness ==
    /\ pc = "built" /\ version = Some(VersionMax)
    /\ span = Some(cli["KvList"]) /\ at = Some(VersionMax) /\ active = Some(FALSE)
    /\ min_server = Some(VersionMin)

\* the role mapping named by a role
MapOf(role) == IF role = "srv" THEN srv ELSE cli

\* C15 as claimed, on builds with debug assertions: while a history that
\* construction does not reject is replayed, every record whose `until`
\* differs from Version::max() has a `since` that differs from Version::min(),
\* and the `since` of a record that an add has set is not changed by any
\* later call.
C15_SinceSetOnceBeforeUntil ==
    /\ [](debug_assertions =>
            \A role \in Roles : \A f \in DOMAIN MapOf(role) :
                MapOf(role)[f].until # VersionMax => MapOf(role)[f].since # VersionMin)
    /\ [][(debug_assertions /\ CallStep /\ pc' = "replay" /\ CalledPair \in added) =>
            MapAfter[Unwrap(ev').feature].since = MapBefore[Unwrap(ev').feature].since]_vars

\* the record of feature f in a mapping, as or_insert_with would find it
RecordOf(features, f) ==
    IF f \in DOMAIN features THEN features[f]
    ELSE [feature |-> f, since |-> VersionMin, until |-> VersionMax]

\* C16: an add or remove call that returns changes only the record of its
\* (role, feature): add sets its `since` and leaves its `until`, remove sets
\* its `until` and leaves its `since`; the other role's mapping and the
\* records of the other features are unchanged, and the key set of each
\* mapping only grows while the history is replayed and is kept by the
\* registry that construction returns.
C16_CallChangesOneField ==
    /\ [][(CallStep /\ pc' = "replay") =>
            /\ IF Unwrap(ev').role = "srv" THEN cli' = cli ELSE srv' = srv
            /\ DOMAIN MapAfter = DOMAIN MapBefore \cup {Unwrap(ev').feature}
            /\ \A g \in DOMAIN MapBefore \ {Unwrap(ev').feature} : MapAfter[g] = MapBefore[g]
            /\ MapAfter[Unwrap(ev').feature] =
                  IF Unwrap(ev').kind = "add"
                  THEN [RecordOf(MapBefore, Unwrap(ev').feature) EXCEPT !.since = Unwrap(ev').version]
                  ELSE [RecordOf(MapBefore, Unwrap(ev').feature) EXCEPT !.until = Unwrap(ev').version]]_vars
    /\ [][pc' # "panicked" =>
            /\ DOMAIN srv \subseteq DOMAIN srv'
            /\ DOMAIN cli \subseteq DOMAIN cli']_vars
    /\ [][~CallStep => (pc' # "panicked" => srv' = srv /\ cli' = cli)]_vars

\* C16 witness: in a build with debug assertions, a remove has just returned:
\* its record has the `until` of the call and the `since` of its add, and the
\* other mapping and another feature's record are in place.
C16_Witness ==
    /\ debug_assertions
    /\ pc = "replay" /\ ev # None
    /\ Unwrap(ev).kind = "remove" /\ Unwrap(ev).role = "srv"
    /\ srv[Unwrap(ev).feature].until = Unwrap(ev).version
    /\ srv[Unwrap(ev).feature].since = ver(1, 2, 163)
    /\ Cardinality(DOMAIN srv) = 2
    /\ cli # EmptyMap

\* a client build at version c exercises a feature the server build lacks
UsesMissing(c) == \E f \in Features : Within(cli[f], c) /\ ~Within(srv[f], Unwrap(version))

\* C17: for every registry and server build version, no client version at or
\* above min_compatible_client_version() has a feature active that the
\* server's lifetime does not cover at the build version.
C17_MinClientIsSufficient ==
    (pc = "built" /\ min_client # None) =>
        \A c \in BuildVersions : AtMost(Unwrap(min_client), c) => ~UsesMissing(c)

\* C17 witness: in a build with debug assertions, the result is a real
\* version: a client just below it exercises a feature the server lacks, a
\* client at it does not.
C17_Witness ==
    /\ debug_assertions
    /\ pc = "built" /\ min_client = Some(ver(1, 3, 0))
    /\ UsesMissing(ver(1, 2, 163))
    /\ ~UsesMissing(ver(1, 3, 0))

\* server versions compared with the client build
ServerVersions ==
    {VersionMin, ver(1, 2, 663), ver(1, 2, 755), ver(1, 2, 769), ver(1, 2, 770),
     ver(1, 2, 869), ver(260205, 0, 0), ver(999999, 999, 999), VersionMax}

\* C18: in the registry loaded at build version 260205.0.0, every feature
\* active on the client at that version has server `until` = Version::max(),
\* and is active on every server version s with (1,2,770) <= s < max.
C18_ShippedClientIsServed ==
    pc = "built" =>
        /\ version = Some(ver(260205, 0, 0))
        /\ \A f \in ClientActive :
              /\ srv[f].until = VersionMax
              /\ \A s \in ServerVersions :
                    (AtMost(ver(1, 2, 770), s) /\ Below(s, VersionMax)) => Within(srv[f], s)

\* C18 witness: the loaded registry, whose client build uses ExpireInMillis
\* and Transaction and no longer uses the features the server has removed;
\* a server at (1,2,769) lacks ExpireInMillis.
C18_Witness ==
    /\ pc = "built" /\ idx = Len(History)
    /\ {"ExpireInMillis", "Transaction"} \subseteq ClientActive
    /\ {f \in Features : srv[f].until # VersionMax} # {}
    /\ {f \in Features : srv[f].until # VersionMax} \cap ClientActive = {}
    /\ ~Within(srv["ExpireInMillis"], ver(1, 2, 769))

====
